---- MODULE Spec2Model ----
(***************************************************************************)
(* Model of src/suiLiquidityPool.js: the SuiLiquidityPool wrapper with its *)
(* poolCache Map and the async operations createPool, getPoolDetails and   *)
(* addLiquidity.  JavaScript runs one callback at a time, so every action  *)
(* is the code one invocation executes between two awaits; invocations     *)
(* interleave only at the awaits.                                          *)
(***************************************************************************)
EXTENDS Integers, Sequences, FiniteSets, TLC

VARIABLES poolCache, age, task, started

vars == <<poolCache, age, task, started>>

\* ---------------------------------------------------------------- bounds

\* Operations started over one run (each task starts one after the other).
MaxOps == 3

\* Operations started over one run of two overlapping callers.
MaxConcurrentOps == 2

\* ------------------------------------------------------ program constants

MODULE_NAME == "liquidity_pool"

PPM == 1000000

\* Configuration named by the design (cacheTtlSeconds, cacheMaxEntries);
\* the source reads neither.
CacheTtl == 1

CacheMaxEntries == 1

\* ------------------------------------------------------------ input sets

Tasks == {"t1", "t2"}

PoolIds == {"p1", "p2"}

Undefined == "undefined"

NoPool == "none"

\* The own properties of the FEE_TIERS object literal.
FEE_TIERS ==
  [LOW    |-> [kind |-> "tier", feePpm |-> 500,   tickSpacing |-> 10],
   MEDIUM |-> [kind |-> "tier", feePpm |-> 3000,  tickSpacing |-> 60],
   HIGH   |-> [kind |-> "tier", feePpm |-> 10000, tickSpacing |-> 200]]

\* Properties every object literal inherits from Object.prototype.
ObjectPrototypeKeys == {"constructor", "toString"}

\* FEE_TIERS[feeTier]: a property read, which walks the prototype chain.
LookupFeeTier(feeTier) ==
  IF feeTier \in DOMAIN FEE_TIERS THEN FEE_TIERS[feeTier]
  ELSE IF feeTier \in ObjectPrototypeKeys
       THEN [kind |-> "function", feePpm |-> 0, tickSpacing |-> 0]
       ELSE [kind |-> Undefined, feePpm |-> 0, tickSpacing |-> 0]

\* !tier : undefined is falsy, an object or a function is truthy.
Falsy(tier) == tier.kind = Undefined

FeeTierInputs == {"LOW", "MEDIUM", "HIGH", "low", "constructor", "toString"}

\* ------------------------------------------------------------- parseInt

Digits == {"0", "1", "2", "3", "4", "5", "6", "7", "8", "9"}

DigitVal(c) ==
  CASE c = "0" -> 0 [] c = "1" -> 1 [] c = "2" -> 2 [] c = "3" -> 3
    [] c = "4" -> 4 [] c = "5" -> 5 [] c = "6" -> 6 [] c = "7" -> 7
    [] c = "8" -> 8 [] c = "9" -> 9

NaN == [nan |-> TRUE, val |-> 0]

Num(n) == [nan |-> FALSE, val |-> n]

\* Length of the longest prefix of s made of digits.
RECURSIVE DigitPrefix(_)
DigitPrefix(s) ==
  IF s = <<>> \/ Head(s) \notin Digits THEN 0 ELSE 1 + DigitPrefix(Tail(s))

RECURSIVE DigitsValue(_, _)
DigitsValue(s, n) ==
  IF n = 0 THEN 0 ELSE 10 * DigitsValue(s, n - 1) + DigitVal(s[n])

\* parseInt(v) over the characters of String(v): an optional sign and the
\* longest digit prefix, NaN when that prefix is empty.  Trailing text is
\* ignored; a missing field reads as the text "undefined", hence NaN.
\* Leading blanks and radix prefixes do not occur in the replies drawn here.
ParseInt(v) ==
  LET neg  == v # <<>> /\ Head(v) = "-"
      body == IF neg THEN Tail(v) ELSE v
      n    == DigitPrefix(body)
  IN IF n = 0 THEN NaN
     ELSE Num((IF neg THEN -1 ELSE 1) * DigitsValue(body, n))

\* parseInt(pool.fee) / 1000000, kept as an exact fraction.
FeeFromPpm(v) ==
  LET p == ParseInt(v) IN [nan |-> p.nan, num |-> p.val, den |-> PPM]

\* --------------------------------------------------- pool type matching

NoMatch == <<>>

\* poolType.match(/<([^,]+),\s*([^>]+)>/) over a tokenised type string:
\* the first "<" followed by one or more non-comma tokens, a comma, and one
\* or more tokens up to the next ">".
TypeMatch(poolType) ==
  LET n  == Len(poolType)
      ms == {m \in (1..n) \X (1..n) \X (1..n) :
               /\ poolType[m[1]] = "<"
               /\ m[2] > m[1] + 1
               /\ poolType[m[2]] = ","
               /\ \A i \in (m[1] + 1)..(m[2] - 1) : poolType[i] # ","
               /\ m[3] > m[2] + 1
               /\ poolType[m[3]] = ">"
               /\ \A i \in (m[2] + 1)..(m[3] - 1) : poolType[i] # ">"}
  IN IF ms = {} THEN NoMatch
     ELSE LET m == CHOOSE x \in ms :
                     \A y \in ms : x[1] < y[1] \/ (x[1] = y[1] /\ x[3] <= y[3])
          IN <<SubSeq(poolType, m[1] + 1, m[2] - 1),
               SubSeq(poolType, m[2] + 1, m[3] - 1)>>

\* ------------------------------------------------- collaborator replies

\* Errors a collaborator (provider, signer) rejects with.  Only .message is
\* ever read by the wrapper; .code stands for the rest of the Error object.
ExtErrors ==
  {[message |-> <<"rpc unavailable">>, code |-> "E_RPC"],
   [message |-> <<"request timed out">>, code |-> "E_TIMEOUT"]}

NoError == [message |-> <<>>, code |-> "none"]

GoodType == <<"Pool", "<", "SUI", ",", "USDC", ">">>

\* Replies of provider.getObject: hasContent is
\* poolObject && poolObject.data && poolObject.data.content.
RawPool(type, fee, tick_spacing, current_tick) ==
  [hasContent |-> TRUE, type |-> type, fee |-> fee,
   tick_spacing |-> tick_spacing, current_tick |-> current_tick]

\* String(undefined), what a missing field reads as.
Missing == <<"undefined">>

NoRaw ==
  [hasContent |-> FALSE, type |-> <<>>, fee |-> Missing,
   tick_spacing |-> Missing, current_tick |-> Missing]

RawObjects ==
  {NoRaw,
   RawPool(GoodType, <<"3", "0", "0", "0">>, <<"6", "0">>, <<"-", "6", "0">>),
   RawPool(<<"Pool", "<", "SUI", ">">>, <<"3", "0", "0", "0">>, <<"6", "0">>, <<"0">>),
   RawPool(GoodType, Missing, <<"6", "0">>, <<"0">>),
   RawPool(GoodType, <<"5", "0", "0", "x">>, <<"x">>, Missing)}

\* Events a transaction returns: type is the tokenised event type string.
Event(module, name, pool_id) ==
  [type |-> <<"0xdex", "::", module, "::", name>>, pool_id |-> pool_id]

Created(pool_id) == Event(MODULE_NAME, "PoolCreated", pool_id)

Swapped(pool_id) == Event(MODULE_NAME, "Swapped", pool_id)

NoResult == [status |-> "none", events |-> <<>>]

\* Replies of signer.signAndExecuteTransactionBlock.
TxResults ==
  {[status |-> "failure", events |-> <<Created("p1")>>],
   [status |-> "success", events |-> <<>>],
   [status |-> "success", events |-> <<Swapped("p1")>>],
   [status |-> "success", events |-> <<Swapped("p2"), Created("p1")>>],
   [status |-> "success", events |-> <<Created("p2"), Created("p1")>>]}

\* Replies of provider.getCoins: the coin object ids found.
CoinLists == {<<>>, <<"coin1">>}

\* ------------------------------------------------------------ task state

NoDetails ==
  [id |-> NoPool, tokenX |-> <<>>, tokenY |-> <<>>,
   fee |-> [nan |-> TRUE, num |-> 0, den |-> PPM],
   tickSpacing |-> NaN, currentTick |-> NaN]

NoOutcome ==
  [kind |-> "none", success |-> FALSE, error |-> <<>>, poolId |-> NoPool,
   details |-> NoDetails]

\* An invocation's locals.  log lists the collaborator calls it has issued,
\* with "FAIL" after a call that rejected; extError is the rejection.
IdleTask ==
  [op |-> "none", pc |-> "idle", poolId |-> NoPool, feeTier |-> Undefined,
   tier |-> LookupFeeTier(Undefined), result |-> NoResult, raw |-> NoRaw,
   pool |-> NoDetails, gpd |-> "none", gpdError |-> <<>>, log |-> <<>>,
   extError |-> NoError, outcome |-> NoOutcome]

\* poolCache as a total map: present is Map.has(id), value is Map.get(id).
NoEntry == [present |-> FALSE, value |-> NoDetails]

Init ==
  /\ poolCache = [id \in PoolIds |-> NoEntry]
  /\ age = [id \in PoolIds |-> 0]
  /\ task = [t \in Tasks |-> IdleTask]
  /\ started = 0

\* A task may begin an invocation when it runs none.
CanStart(t, limit) == task[t].pc \in {"idle", "done"} /\ started < limit

\* --------------------------------------------------------- getPoolDetails

\* The catch block of getPoolDetails: a new Error whose message is the
\* caught error's message behind a fixed prefix.
GetPoolDetailsCatch(r, message) ==
  [r EXCEPT !.pc = "gpdSettled", !.gpd = "thrown", !.pool = NoDetails,
            !.gpdError = <<"Failed to fetch pool details: ">> \o message]

\* A collaborator call of getPoolDetails rejects with e.
GetPoolDetailsRejected(r, e) ==
  GetPoolDetailsCatch([r EXCEPT !.log = Append(@, "FAIL"), !.extError = e],
                      e.message)

\* getPoolDetails(poolId) up to its first await: the cached entry when the
\* Map has one, otherwise provider.getObject is issued.
EnterGetPoolDetails(r, poolId) ==
  IF poolCache[poolId].present
  THEN [r EXCEPT !.poolId = poolId, !.pc = "gpdSettled", !.gpd = "hit",
                 !.pool = poolCache[poolId].value]
  ELSE [r EXCEPT !.poolId = poolId, !.pc = "awaitGetObject",
                 !.log = Append(@, "getObject")]

\* The fields read from the fetched object, before tvl is awaited.
ParsePool(poolId, raw) ==
  LET typeMatch == TypeMatch(raw.type)
  IN [id |-> poolId, tokenX |-> typeMatch[1], tokenY |-> typeMatch[2],
      fee |-> FeeFromPpm(raw.fee),
      tickSpacing |-> ParseInt(raw.tick_spacing),
      currentTick |-> ParseInt(raw.current_tick)]

\* provider.getObject has answered with raw: the checks and the parsing up
\* to the await of the two getTokenMetadata calls.
GotPoolObject(r, raw) ==
  IF ~raw.hasContent
  THEN GetPoolDetailsCatch([r EXCEPT !.raw = raw],
                           <<"Pool with ID ", r.poolId, " not found">>)
  ELSE IF TypeMatch(raw.type) = NoMatch
  THEN GetPoolDetailsCatch([r EXCEPT !.raw = raw],
                           <<"Invalid pool type format: ">> \o raw.type)
  ELSE [r EXCEPT !.raw = raw, !.pool = ParsePool(r.poolId, raw),
                 !.pc = "awaitMetadata",
                 !.log = @ \o <<"getTokenMetadata", "getTokenMetadata">>]

StartGetPoolDetails(t, limit) ==
  /\ CanStart(t, limit)
  /\ \E poolId \in PoolIds :
       task' = [task EXCEPT ![t] =
                  EnterGetPoolDetails([IdleTask EXCEPT !.op = "getPoolDetails"],
                                      poolId)]
  /\ started' = started + 1
  /\ UNCHANGED <<poolCache, age>>

GetObjectResolves(t) ==
  /\ task[t].pc = "awaitGetObject"
  /\ \/ \E e \in ExtErrors :
          task' = [task EXCEPT ![t] = GetPoolDetailsRejected(task[t], e)]
     \/ \E raw \in RawObjects :
          task' = [task EXCEPT ![t] = GotPoolObject(task[t], raw)]
  /\ UNCHANGED <<poolCache, age, started>>

MetadataResolves(t) ==
  /\ task[t].pc = "awaitMetadata"
  /\ \/ \E e \in ExtErrors :
          task' = [task EXCEPT ![t] = GetPoolDetailsRejected(task[t], e)]
     \/ task' = [task EXCEPT ![t].pc = "awaitTVL",
                             ![t].log = Append(@, "calculatePoolTVL")]
  /\ UNCHANGED <<poolCache, age, started>>

\* Mutant of TVLResolves: the details are put in the Map before the tvl is
\* known, so a failing calculatePoolTVL leaves an entry behind.
TVLResolvesCacheFirst(t) ==
  /\ task[t].pc = "awaitTVL"
  /\ poolCache' = [poolCache EXCEPT ![task[t].poolId] =
                     [present |-> TRUE, value |-> task[t].pool]]
  /\ age' = [age EXCEPT ![task[t].poolId] = 0]
  /\ \/ \E e \in ExtErrors :
          task' = [task EXCEPT ![t] = GetPoolDetailsRejected(task[t], e)]
     \/ task' = [task EXCEPT ![t].pc = "gpdSettled", ![t].gpd = "fetched"]
  /\ UNCHANGED started

\* calculatePoolTVL has settled: on success the details are put in the Map
\* and returned.
TVLResolves(t) ==
  /\ task[t].pc = "awaitTVL"
  /\ \/ /\ \E e \in ExtErrors :
             task' = [task EXCEPT ![t] = GetPoolDetailsRejected(task[t], e)]
        /\ UNCHANGED <<poolCache, age>>
     \/ /\ poolCache' = [poolCache EXCEPT ![task[t].poolId] =
                           [present |-> TRUE, value |-> task[t].pool]]
        /\ age' = [age EXCEPT ![task[t].poolId] = 0]
        /\ task' = [task EXCEPT ![t].pc = "gpdSettled", ![t].gpd = "fetched"]
  /\ UNCHANGED started

\* The caller of a top-level getPoolDetails receives its result.
ReturnPoolDetails(t) ==
  /\ task[t].pc = "gpdSettled" /\ task[t].op = "getPoolDetails"
  /\ task' = [task EXCEPT ![t].pc = "done",
                ![t].outcome =
                   IF task[t].gpd = "thrown"
                   THEN [NoOutcome EXCEPT !.kind = "thrown",
                                          !.error = task[t].gpdError]
                   ELSE [NoOutcome EXCEPT !.kind = "returned",
                                          !.poolId = task[t].poolId,
                                          !.details = task[t].pool]]
  /\ UNCHANGED <<poolCache, age, started>>

\* -------------------------------------------------------------- createPool

\* Mutant of CreatePoolCatch: the caught error is replaced by a fixed text.
CreatePoolCatchSwallowed(r, message) ==
  [r EXCEPT !.pc = "done",
            !.outcome = [NoOutcome EXCEPT !.kind = "returned",
                                          !.success = FALSE,
                                          !.error = <<"Pool creation failed">>]]

\* The catch block of createPool: the result carries error.message only.
CreatePoolCatch(r, message) ==
  [r EXCEPT !.pc = "done",
            !.outcome = [NoOutcome EXCEPT !.kind = "returned",
                                          !.success = FALSE,
                                          !.error = message]]

\* Mutant of CreatePoolRejected: the rejected call is issued once more
\* before the error is passed on.
CreatePoolRejectedRetry(r, e) ==
  [r EXCEPT !.pc = "done",
            !.log = @ \o <<"FAIL", r.log[Len(r.log)]>>,
            !.extError = e,
            !.outcome = [NoOutcome EXCEPT !.kind = "returned",
                                          !.success = FALSE,
                                          !.error = e.message]]

\* A collaborator call of createPool rejects with e.
CreatePoolRejected(r, e) ==
  CreatePoolCatch([r EXCEPT !.log = Append(@, "FAIL"), !.extError = e],
                  e.message)

\* type.includes(needle): needle occurs as a contiguous run of type.
Includes(type, needle) ==
  \E i \in 0..(Len(type) - Len(needle)) :
    SubSeq(type, i + 1, i + Len(needle)) = needle

\* The text `${this.moduleName}::PoolCreated`.
PoolCreatedName == <<MODULE_NAME, "::", "PoolCreated">>

\* Mutant of FindPoolCreated: the first event is taken whatever its type.
FindFirstEvent(events) == IF events = <<>> THEN 0 ELSE 1

\* The index result.events.find(...) stops at, 0 when it finds nothing.
FindPoolCreated(events) ==
  LET hits == {i \in 1..Len(events) : Includes(events[i].type, PoolCreatedName)}
  IN IF hits = {} THEN 0 ELSE CHOOSE i \in hits : \A j \in hits : i <= j

\* createPool up to the await of provider.getCoins.
StartCreatePool(t, limit) ==
  /\ CanStart(t, limit)
  /\ \E feeTier \in FeeTierInputs :
       LET tier == LookupFeeTier(feeTier)
           r    == [IdleTask EXCEPT !.op = "createPool", !.feeTier = feeTier,
                                    !.tier = tier]
       IN task' = [task EXCEPT ![t] =
            IF Falsy(tier)
            THEN CreatePoolCatch(r, <<"Invalid fee tier: ", feeTier,
                                      ". Must be LOW, MEDIUM, or HIGH.">>)
            ELSE [r EXCEPT !.pc = "awaitGetCoins",
                           !.log = Append(@, "getCoins")]]
  /\ started' = started + 1
  /\ UNCHANGED <<poolCache, age>>

\* provider.getCoins has settled: the move call is built and handed to
\* signer.signAndExecuteTransactionBlock.  With a tier that is no fee tier
\* record the pure arguments are NaN and undefined, which the transaction
\* builder may or may not reject.
GetCoinsResolves(t) ==
  /\ task[t].pc = "awaitGetCoins"
  /\ \/ \E e \in ExtErrors :
          task' = [task EXCEPT ![t] = CreatePoolRejected(task[t], e)]
     \/ \E coins \in CoinLists :
          task' = [task EXCEPT ![t] =
            IF coins = <<>>
            THEN CreatePoolCatch(task[t],
                                 <<"No gas objects available for transaction">>)
            ELSE [task[t] EXCEPT !.pc = "awaitSign",
                    !.log = Append(@, "signAndExecuteTransactionBlock")]]
     \/ /\ task[t].tier.kind # "tier"
        /\ task' = [task EXCEPT ![t] =
                      CreatePoolCatch(task[t], <<"Invalid pure value">>)]
  /\ UNCHANGED <<poolCache, age, started>>

\* The transaction has answered with result: status check, event lookup and
\* the call of getPoolDetails(poolId) up to its first await.
Executed(r, result) ==
  LET found == FindPoolCreated(result.events)
      r1    == [r EXCEPT !.result = result]
  IN IF result.status # "success"
     THEN CreatePoolCatch(r1, <<"Transaction failed: ", "status error">>)
     ELSE IF found = 0
     THEN CreatePoolCatch(r1, <<"Pool creation event not found in transaction">>)
     ELSE EnterGetPoolDetails(r1, result.events[found].pool_id)

SignResolves(t) ==
  /\ task[t].pc = "awaitSign"
  /\ \/ \E e \in ExtErrors :
          task' = [task EXCEPT ![t] = CreatePoolRejected(task[t], e)]
     \/ \E result \in TxResults :
          task' = [task EXCEPT ![t] = Executed(task[t], result)]
  /\ UNCHANGED <<poolCache, age, started>>

\* getPoolDetails has settled inside createPool: the success result, or the
\* catch block with the error getPoolDetails threw.
CreatePoolReturns(t) ==
  /\ task[t].pc = "gpdSettled" /\ task[t].op = "createPool"
  /\ task' = [task EXCEPT ![t] =
       IF task[t].gpd = "thrown"
       THEN CreatePoolCatch(task[t], task[t].gpdError)
       ELSE [task[t] EXCEPT !.pc = "done",
               !.outcome = [NoOutcome EXCEPT !.kind = "returned",
                                             !.success = TRUE,
                                             !.poolId = task[t].poolId,
                                             !.details = task[t].pool]]]
  /\ UNCHANGED <<poolCache, age, started>>

\* ------------------------------------------------------------ addLiquidity

\* addLiquidity up to its first await: getPoolDetails(poolId).
StartAddLiquidity(t, limit) ==
  /\ CanStart(t, limit)
  /\ \E poolId \in PoolIds :
       task' = [task EXCEPT ![t] =
                  EnterGetPoolDetails([IdleTask EXCEPT !.op = "addLiquidity"],
                                      poolId)]
  /\ started' = started + 1
  /\ UNCHANGED <<poolCache, age>>

\* getPoolDetails has settled inside addLiquidity: with a pool, the two
\* provider.getCoins calls are issued; an error leaves the try block.
AddLiquidityGetCoins(t) ==
  /\ task[t].pc = "gpdSettled" /\ task[t].op = "addLiquidity"
  /\ task' = [task EXCEPT ![t] =
       IF task[t].gpd = "thrown"
       THEN [task[t] EXCEPT !.pc = "done",
               !.outcome = [NoOutcome EXCEPT !.kind = "thrown",
                                             !.error = task[t].gpdError]]
       ELSE [task[t] EXCEPT !.pc = "awaitCoinsXY",
               !.log = @ \o <<"getCoins", "getCoins">>]]
  /\ UNCHANGED <<poolCache, age, started>>

\* Both getCoins calls have settled: the add_liquidity move call is built
\* on the pool snapshot read at the start of the call.
CoinsXYResolve(t) ==
  /\ task[t].pc = "awaitCoinsXY"
  /\ \/ \E e \in ExtErrors :
          task' = [task EXCEPT ![t] =
            [task[t] EXCEPT !.pc = "done", !.log = Append(@, "FAIL"),
               !.extError = e,
               !.outcome = [NoOutcome EXCEPT !.kind = "thrown",
                                             !.error = e.message]]]
     \/ \E coinsX \in CoinLists, coinsY \in CoinLists :
          task' = [task EXCEPT ![t] =
            IF coinsX = <<>> \/ coinsY = <<>>
            THEN [task[t] EXCEPT !.pc = "done",
                    !.outcome = [NoOutcome EXCEPT !.kind = "thrown",
                       !.error = <<"Insufficient coins for liquidity provision">>]]
            ELSE [task[t] EXCEPT !.pc = "done",
                    !.outcome = [NoOutcome EXCEPT !.kind = "built",
                                                  !.poolId = task[t].poolId,
                                                  !.details = task[t].pool]]]
  /\ UNCHANGED <<poolCache, age, started>>

\* ------------------------------------------------------------- environment

\* Time passes: every cached entry grows older.  Ages past the staleness
\* threshold are not told apart.
Tick ==
  /\ \E id \in PoolIds : poolCache[id].present /\ age[id] <= CacheTtl
  /\ age' = [id \in PoolIds |->
               IF poolCache[id].present /\ age[id] <= CacheTtl
               THEN age[id] + 1 ELSE age[id]]
  /\ UNCHANGED <<poolCache, task, started>>

\* One caller that awaits each call before it makes the next.
Caller == "t1"

Next ==
  \/ StartGetPoolDetails(Caller, MaxOps)
  \/ StartCreatePool(Caller, MaxOps)
  \/ StartAddLiquidity(Caller, MaxOps)
  \/ GetObjectResolves(Caller)
  \/ MetadataResolves(Caller)
  \/ TVLResolves(Caller)
  \/ ReturnPoolDetails(Caller)
  \/ GetCoinsResolves(Caller)
  \/ SignResolves(Caller)
  \/ CreatePoolReturns(Caller)
  \/ AddLiquidityGetCoins(Caller)
  \/ CoinsXYResolve(Caller)
  \/ Tick

Spec == Init /\ [][Next]_vars

\* Two callers whose reads and liquidity additions overlap.
NextConcurrent ==
  \/ \E t \in Tasks :
       \/ StartGetPoolDetails(t, MaxConcurrentOps)
       \/ StartAddLiquidity(t, MaxConcurrentOps)
       \/ GetObjectResolves(t)
       \/ MetadataResolves(t)
       \/ TVLResolves(t)
       \/ ReturnPoolDetails(t)
       \/ AddLiquidityGetCoins(t)
       \/ CoinsXYResolve(t)
  \/ Tick

SpecConcurrent == Init /\ [][NextConcurrent]_vars

\* ------------------------------------------------------ claim vocabulary

Count(log, call) == Cardinality({i \in 1..Len(log) : log[i] = call})

IsSuffix(m, s) ==
  Len(m) <= Len(s) /\ SubSeq(s, Len(s) - Len(m) + 1, Len(s)) = m

InFlight(t) == task[t].pc \notin {"idle", "done"}

\* The outcome tells the caller of a failure: a thrown error, or a result
\* with success: false.
ReportsError(outcome) ==
  \/ outcome.kind = "thrown"
  \/ outcome.kind = "returned" /\ ~outcome.success /\ outcome.error # <<>>

CachedIds == {id \in PoolIds : poolCache[id].present}

\* A reply of the pool source that lacks content, two token type arguments,
\* or a fee, tick_spacing or current_tick that reads as an integer.
Malformed(raw) ==
  \/ ~raw.hasContent
  \/ TypeMatch(raw.type) = NoMatch
  \/ \E v \in {raw.fee, raw.tick_spacing, raw.current_tick} : ParseInt(v).nan

\* ------------------------------------------------------------------ claims

\* C1: the pool snapshot an addLiquidity call builds its add_liquidity
\* operation on was fetched from the pool source during that call, never
\* taken from a poolCache entry.
C1_MutationNeverReadsCache ==
  \A t \in Tasks :
    (task[t].op = "addLiquidity" /\ task[t].outcome.kind = "built")
      => (task[t].gpd = "fetched" /\ Count(task[t].log, "getObject") = 1)

\* C2: two addLiquidity calls on the same pool id are never in flight
\* together.
C2_OneMutationPerPool ==
  \A t1 \in Tasks, t2 \in Tasks :
    (/\ t1 # t2
     /\ task[t1].op = "addLiquidity" /\ task[t2].op = "addLiquidity"
     /\ InFlight(t1) /\ InFlight(t2))
      => task[t1].poolId # task[t2].poolId

\* C3: getPoolDetails answers from the cache only while the entry is no
\* older than the staleness threshold; an older entry is a miss.
C3_CachedOnlyWhileFresh ==
  [][\A t \in Tasks :
       (task[t].gpd # "hit" /\ task'[t].gpd = "hit")
         => age[task'[t].poolId] <= CacheTtl]_vars

\* C4: poolCache never holds more than cacheMaxEntries entries.
C4_CacheSizeBounded == Cardinality(CachedIds) <= CacheMaxEntries

\* C5: createPool with a fee tier name other than LOW, MEDIUM or HIGH ends
\* with success: false, having fetched no gas coin and submitted nothing.
C5_UnknownFeeTierFails ==
  \A t \in Tasks :
    (task[t].op = "createPool" /\ task[t].feeTier \notin {"LOW", "MEDIUM", "HIGH"})
      => /\ task[t].pc = "done"
         /\ ReportsError(task[t].outcome)
         /\ task[t].log = <<>>

\* C6 as claimed: a collaborator failure in createPool or getPoolDetails
\* ends in an error outcome that carries the original error with context
\* (pool id or operation) attached to it.
C6_ErrorCarriesContext ==
  \A t \in Tasks :
    (/\ task[t].op \in {"createPool", "getPoolDetails"}
     /\ task[t].pc = "done"
     /\ task[t].extError # NoError)
      => /\ ReportsError(task[t].outcome)
         /\ IsSuffix(task[t].extError.message, task[t].outcome.error)
         /\ task[t].outcome.error # task[t].extError.message

\* C6 as amended: a collaborator failure in createPool or getPoolDetails
\* ends in an error outcome, never in success, whose message ends with the
\* original error's message; a failure inside getPoolDetails is prefixed
\* with "Failed to fetch pool details: ", a getCoins or
\* signAndExecuteTransactionBlock failure of createPool is passed on bare.
C6_ErrorSurfaced ==
  \A t \in Tasks :
    (/\ task[t].op \in {"createPool", "getPoolDetails"}
     /\ task[t].pc = "done"
     /\ task[t].extError # NoError)
      => /\ ReportsError(task[t].outcome)
         /\ task[t].outcome.error =
              IF Count(task[t].log, "getObject") = 1
              THEN <<"Failed to fetch pool details: ">> \o task[t].extError.message
              ELSE task[t].extError.message

C6_Witness ==
  \E t \in Tasks :
    /\ task[t].op = "createPool" /\ task[t].pc = "done"
    /\ task[t].extError # NoError
    /\ Count(task[t].log, "getObject") = 1

\* C7: within one createPool or getPoolDetails call no collaborator call is
\* issued again after it failed, and signAndExecuteTransactionBlock,
\* getCoins and getObject are each issued at most once.
C7_NoRetry ==
  \A t \in Tasks :
    task[t].op \in {"createPool", "getPoolDetails"}
      => /\ \A i \in 2..Len(task[t].log) :
              task[t].log[i] = "FAIL"
                => \A j \in (i + 1)..Len(task[t].log) :
                     task[t].log[j] # task[t].log[i - 1]
         /\ Count(task[t].log, "signAndExecuteTransactionBlock") <= 1
         /\ Count(task[t].log, "getCoins") <= 1
         /\ Count(task[t].log, "getObject") <= 1
         /\ Count(task[t].log, "FAIL") <= 1

C7_Witness ==
  \E t \in Tasks :
    /\ task[t].op = "createPool" /\ task[t].pc = "done"
    /\ task[t].log = <<"getCoins", "signAndExecuteTransactionBlock", "FAIL">>

\* C8: a malformed reply of the pool source never ends in a fetched,
\* cached pool: getPoolDetails ends with an error and stores no entry.
C8_MalformedPoolRejected ==
  /\ \A t \in Tasks : task[t].gpd = "fetched" => ~Malformed(task[t].raw)
  /\ \A id \in CachedIds :
       /\ ~poolCache[id].value.fee.nan
       /\ ~poolCache[id].value.tickSpacing.nan
       /\ ~poolCache[id].value.currentTick.nan

\* C9: createPool returns success with pool id p only if the transaction's
\* status was success and its events hold a PoolCreated event of the module
\* with pool_id p; with another status or no such event the result is
\* success: false and getPoolDetails was never called.
C9_SuccessOnlyThroughEvent ==
  \A t \in Tasks :
    task[t].op = "createPool"
      => LET r       == task[t]
             matches == {i \in 1..Len(r.result.events) :
                           Includes(r.result.events[i].type, PoolCreatedName)}
         IN /\ r.outcome.success
                 => /\ r.result.status = "success"
                    /\ \E i \in matches :
                         r.result.events[i].pool_id = r.outcome.poolId
            /\ (r.result # NoResult
                /\ (r.result.status # "success" \/ matches = {}))
                 => /\ r.pc = "done"
                    /\ ReportsError(r.outcome)
                    /\ r.gpd = "none"
                    /\ Count(r.log, "getObject") = 0

C9_Witness ==
  \E t \in Tasks :
    /\ task[t].op = "createPool" /\ task[t].outcome.success
    /\ task[t].outcome.poolId = "p1"
    /\ task[t].result.events = <<Swapped("p2"), Created("p1")>>

\* C10: a getPoolDetails call that ends with an error makes no change to
\* poolCache: the cache changes only in the step that completes a fetch
\* successfully, which stores the fetched details under the call's pool id,
\* and every entry's id field is its key.
C10_FailedFetchLeavesCache ==
  /\ [](\A id \in CachedIds : poolCache[id].value.id = id)
  /\ [][poolCache' # poolCache
          => \E t \in Tasks :
               /\ task[t].pc = "awaitTVL"
               /\ task'[t].gpd = "fetched"
               /\ poolCache' = [poolCache EXCEPT ![task[t].poolId] =
                                  [present |-> TRUE, value |-> task'[t].pool]]]_vars

C10_Witness ==
  \E t \in Tasks, u \in Tasks :
    /\ task[t].gpd = "thrown"
    /\ Count(task[t].log, "calculatePoolTVL") = 1
    /\ ~poolCache[task[t].poolId].present
    /\ task[u].gpd = "fetched"

====
